---- MODULE Spec2Model ----
(***************************************************************************)
(* Request handling of the dynamo LLM examples.                             *)
(*                                                                         *)
(*   - RequestHandler.generate of the vllm_nixl prefill worker: the lazy    *)
(*     loading of a remote engine's nixl metadata, then the prefill         *)
(*     generation (SpecPrefill).                                            *)
(*   - TensorrtLLMEngine.generate_chat / generate_completion of the         *)
(*     tensorrt_llm monolith worker (SpecWorker), with smaller views of it: *)
(*     chat requests only (SpecChat), the handlers up to their first        *)
(*     suspension (SpecAdmit), completion requests that all run to their    *)
(*     end (SpecCounter), one request with its responses traced (SpecSolo)  *)
(*     and one completion request with its arguments in detail (SpecSetup). *)
(*                                                                         *)
(* Both handlers are async generators run by one asyncio event loop: the    *)
(* code between two suspension points (await, async for, yield) runs        *)
(* without interleaving, so one action is one such stretch of code.         *)
(***************************************************************************)
EXTENDS Naturals, Integers, Sequences, FiniteSets, TLC

\* ---------------------------------------------------------------- bounds
NReq == 2        \* prefill requests over the handler's lifetime
NEng == 2        \* remote (decode) engine identifiers
MaxOut == 1      \* items the engine yields per prefill generation
NTask == 2       \* chat / completion requests over the worker's lifetime
MaxPrompts == 2  \* prompts in one completion request
MaxChunks == 2   \* responses one chat / completion request streams
MaxN == 2        \* request.n of a completion request
MaxTokens == 2   \* request.max_tokens of a completion request

Reqs == 1..NReq
Engines == 1..NEng
Tasks == 1..NTask

None == "None"
\* request.engine_id and remote_metadata before they are assigned.
NoEngine == 0
NoMetadata == [engine_id |-> NoEngine]
\* The handler's locals and the arguments of a call before they exist.
NoSampling == [max_tokens |-> 0, min_tokens |-> 0]
NoPrefillParams ==
    [is_remote_decode |-> FALSE, decode_block_ids |-> <<>>, decode_engine_id |-> NoEngine]
NoArgs ==
    [request_id |-> 0, sampling_params |-> NoSampling,
     remote_prefill_params |-> NoPrefillParams]

VARIABLES
    \* ---- prefill worker (prefill_worker.py)
    store,            \* MetadataStore: engine ids whose metadata is published
    loaded_metadata,  \* RequestHandler._loaded_metadata
    nixl_applied,     \* metadata whose add_remote_nixl_metadata call completed
    ppc,              \* per request: where RequestHandler.generate is suspended
    req_engine,       \* per request: request.engine_id
    remote_metadata,  \* per request: the local remote_metadata
    perr,             \* per request: the exception that ended it
    outputs,          \* per request: items yielded to the caller
    get_calls,        \* per request: MetadataStore.get calls made
    add_calls,        \* per engine id: add_remote_nixl_metadata calls made
    gen_calls,        \* per request: engine_client.generate calls made
    get_failed,       \* per request: its MetadataStore.get raised NotFoundError
    handshake_done,   \* engine ids for which a handshake ran to completion
    started_after,    \* per request: it started after such a handshake for its id
    arrived,          \* the request.sampling_params values requests arrived with
    block_ids,        \* per request: request.block_ids
    sampling_params,  \* per request: the local sampling_params
    remote_prefill_params,  \* per request: the local remote_prefill_params
    gen_args,         \* per request: the arguments of its engine_client.generate call
    \* ---- tensorrt_llm monolith worker (worker.py)
    llm_engine,             \* TensorrtLLMEngine._llm_engine: None or the engine
    ongoing_request_count,  \* TensorrtLLMEngine._ongoing_request_count
    sigint_by,        \* requests whose handler raised SIGINT
    kind,             \* per request: "chat" or "completion"
    wpc,              \* per request: where its handler is suspended or how it ended
    stream,           \* per chat request: request.stream
    promises,         \* per request: the state of each promise generate_async gave
    yielded,          \* per request: responses yielded to the caller
    werr,             \* per request: the exception that left the handler
    raised,           \* per request: the exception first raised while handling it
    entered,          \* per request: it incremented the counter
    decs,             \* per request: times it decremented the counter
    emitted,          \* per request: the responses yielded, in order, where traced
    \* ---- one completion request, from its call to its first response
    creq,             \* the request: prompt, n, max_tokens, disaggregated_params
    cfault,           \* the fault its collaborators will raise, if any
    cpc,              \* where generate_completion is for it
    calls,            \* the generate_async calls made so far, in order
    num_choices,      \* the num_choices given to create_completion_generator
    cexc              \* the exception that left the handler

pvars == <<store, loaded_metadata, nixl_applied, ppc, req_engine, remote_metadata,
           perr, outputs, get_calls, add_calls, gen_calls, get_failed,
           handshake_done, started_after, arrived, block_ids, sampling_params,
           remote_prefill_params, gen_args>>

rvars == <<arrived, block_ids, sampling_params, remote_prefill_params>>

wvars == <<llm_engine, ongoing_request_count, sigint_by, kind, wpc, stream,
           promises, yielded, werr, raised, entered, decs, emitted>>

svars == <<creq, cfault, cpc, calls, num_choices, cexc>>

vars == <<pvars, wvars, svars>>

\* ------------------------------------------------------- MetadataStore
\* The metadata published for engine id e (opaque, identified by the id).
Metadata(e) == [engine_id |-> e]

\* NixlMetadataStore.get: the published metadata, or NotFoundError.
StoreHas(e) == e \in store
StoreGet(e) == Metadata(e)

\* NixlMetadataStore.put by the engine that owns e.
StorePut(e) ==
    /\ e \notin store
    /\ store' = store \cup {e}
    /\ UNCHANGED <<loaded_metadata, nixl_applied, ppc, req_engine, remote_metadata,
                   perr, outputs, get_calls, add_calls, gen_calls, get_failed,
                   handshake_done, started_after>>
    /\ UNCHANGED <<wvars, svars, rvars, gen_args>>

\* ------------------------------------------------------ RequestHandler
PInit ==
    /\ store = {}
    /\ loaded_metadata = {}
    /\ nixl_applied = {}
    /\ ppc = [r \in Reqs |-> "idle"]
    /\ req_engine = [r \in Reqs |-> NoEngine]
    /\ remote_metadata = [r \in Reqs |-> NoMetadata]
    /\ perr = [r \in Reqs |-> None]
    /\ outputs = [r \in Reqs |-> 0]
    /\ get_calls = [r \in Reqs |-> 0]
    /\ add_calls = [e \in Engines |-> 0]
    /\ gen_calls = [r \in Reqs |-> 0]
    /\ get_failed = [r \in Reqs |-> FALSE]
    /\ handshake_done = {}
    /\ started_after = [r \in Reqs |-> FALSE]
    /\ arrived = {}
    /\ block_ids = [r \in Reqs |-> <<>>]
    /\ sampling_params = [r \in Reqs |-> NoSampling]
    /\ remote_prefill_params = [r \in Reqs |-> NoPrefillParams]
    /\ gen_args = [r \in Reqs |-> NoArgs]

\* Requests are numbered in the order the endpoint invokes the handler.
NextReq(r) == ppc[r] = "idle" /\ \A q \in Reqs : q < r => ppc[q] # "idle"

\* Line 61: the test that decides whether the handshake runs.
NeedsLoad_Always(e) == TRUE
NeedsLoad(e) == e \notin loaded_metadata

\* request.sampling_params of an arriving request.
ArrivingSampling ==
    {[max_tokens |-> 16, min_tokens |-> 0], [max_tokens |-> 1, min_tokens |-> 1]}
\* request.block_ids: the decode engine gives each request blocks of its own.
BlockIds(r) == <<2 * r - 1, 2 * r>>

\* Lines 45-47.
ForceOneToken_KeepsArrival(sp) == sp
ForceOneToken(sp) == [sp EXCEPT !.max_tokens = 1, !.min_tokens = 1]

\* Lines 49-53.
RemotePrefillParams(blocks, e) ==
    [is_remote_decode |-> TRUE, decode_block_ids |-> blocks, decode_engine_id |-> e]

\* Lines 87-92: the call of engine_client.generate with the locals sp
\* (sampling_params) and rp (remote_prefill_params); the handler then waits
\* for its first item.
CallGenerateWith(r, sp, rp) ==
    /\ gen_calls' = [gen_calls EXCEPT ![r] = @ + 1]
    /\ gen_args' = [gen_args EXCEPT ![r] =
                        [request_id |-> r, sampling_params |-> sp,
                         remote_prefill_params |-> rp]]
    /\ ppc' = [ppc EXCEPT ![r] = "generating"]
\* The call made after a suspension: the locals are those of the frame.
CallGenerate(r) == CallGenerateWith(r, sampling_params[r], remote_prefill_params[r])

\* Lines 41-65 (or 41-61, 79-87): decode the request, build the parameters,
\* test _loaded_metadata; then either call MetadataStore.get and suspend, or
\* skip the handshake and call engine_client.generate.
Generate(r, e) ==
    /\ NextReq(r)
    /\ req_engine' = [req_engine EXCEPT ![r] = e]
    /\ block_ids' = [block_ids EXCEPT ![r] = BlockIds(r)]
    /\ \E sp \in ArrivingSampling :
           /\ arrived' = arrived \cup {sp}
           /\ sampling_params' = [sampling_params EXCEPT ![r] = ForceOneToken(sp)]
    /\ remote_prefill_params' =
           [remote_prefill_params EXCEPT ![r] = RemotePrefillParams(BlockIds(r), e)]
    /\ started_after' = [started_after EXCEPT ![r] = e \in handshake_done]
    /\ IF NeedsLoad(e)
       THEN /\ get_calls' = [get_calls EXCEPT ![r] = @ + 1]
            /\ ppc' = [ppc EXCEPT ![r] = "await_get"]
            /\ UNCHANGED <<gen_calls, gen_args>>
       ELSE /\ CallGenerateWith(r, sampling_params'[r], remote_prefill_params'[r])
            /\ UNCHANGED get_calls
    /\ UNCHANGED <<store, loaded_metadata, nixl_applied, remote_metadata, perr,
                   outputs, add_calls, get_failed, handshake_done>>
    /\ UNCHANGED <<wvars, svars>>

\* Lines 65-69: MetadataStore.get returns; add_remote_nixl_metadata is called
\* with what it returned and the handler suspends again.
GetReturns_MarksLoaded(r) ==
    /\ ppc[r] = "await_get"
    /\ StoreHas(req_engine[r])
    /\ remote_metadata' = [remote_metadata EXCEPT ![r] = StoreGet(req_engine[r])]
    /\ add_calls' = [add_calls EXCEPT ![req_engine[r]] = @ + 1]
    /\ loaded_metadata' = loaded_metadata \cup {req_engine[r]}
    /\ ppc' = [ppc EXCEPT ![r] = "await_add"]
    /\ UNCHANGED <<store, nixl_applied, req_engine, perr, outputs,
                   get_calls, gen_calls, get_failed, handshake_done, started_after>>
    /\ UNCHANGED <<wvars, svars, rvars, gen_args>>
GetReturns(r) ==
    /\ ppc[r] = "await_get"
    /\ StoreHas(req_engine[r])
    /\ remote_metadata' = [remote_metadata EXCEPT ![r] = StoreGet(req_engine[r])]
    /\ add_calls' = [add_calls EXCEPT ![req_engine[r]] = @ + 1]
    /\ ppc' = [ppc EXCEPT ![r] = "await_add"]
    /\ UNCHANGED <<store, loaded_metadata, nixl_applied, req_engine, perr, outputs,
                   get_calls, gen_calls, get_failed, handshake_done, started_after>>
    /\ UNCHANGED <<wvars, svars, rvars, gen_args>>

\* Line 65: MetadataStore.get raises NotFoundError; nothing in generate
\* catches it, so it leaves the handler as it is.
GetRaises_Swallowed(r) ==
    /\ ppc[r] = "await_get"
    /\ ~StoreHas(req_engine[r])
    /\ get_failed' = [get_failed EXCEPT ![r] = TRUE]
    /\ CallGenerate(r)
    /\ UNCHANGED <<store, loaded_metadata, nixl_applied, req_engine, remote_metadata,
                   perr, outputs, get_calls, add_calls, handshake_done, started_after>>
    /\ UNCHANGED <<wvars, svars, rvars>>
GetRaises(r) ==
    /\ ppc[r] = "await_get"
    /\ ~StoreHas(req_engine[r])
    /\ get_failed' = [get_failed EXCEPT ![r] = TRUE]
    /\ perr' = [perr EXCEPT ![r] = "NotFoundError"]
    /\ ppc' = [ppc EXCEPT ![r] = "failed"]
    /\ UNCHANGED <<store, loaded_metadata, nixl_applied, req_engine, remote_metadata,
                   outputs, get_calls, add_calls, gen_calls, handshake_done,
                   started_after>>
    /\ UNCHANGED <<wvars, svars, rvars, gen_args>>

\* Lines 69-87: add_remote_nixl_metadata returns; the id is recorded in
\* _loaded_metadata and engine_client.generate is called.
AddReturns_NotRecorded(r) ==
    /\ ppc[r] = "await_add"
    /\ nixl_applied' = nixl_applied \cup {remote_metadata[r]}
    /\ handshake_done' = handshake_done \cup {req_engine[r]}
    /\ CallGenerate(r)
    /\ UNCHANGED <<store, loaded_metadata, req_engine, remote_metadata, perr, outputs,
                   get_calls, add_calls, get_failed, started_after>>
    /\ UNCHANGED <<wvars, svars, rvars>>
AddReturns_Replaces(r) ==
    /\ ppc[r] = "await_add"
    /\ nixl_applied' = nixl_applied \cup {remote_metadata[r]}
    /\ loaded_metadata' = {req_engine[r]}
    /\ handshake_done' = handshake_done \cup {req_engine[r]}
    /\ CallGenerate(r)
    /\ UNCHANGED <<store, req_engine, remote_metadata, perr, outputs,
                   get_calls, add_calls, get_failed, started_after>>
    /\ UNCHANGED <<wvars, svars, rvars>>
AddReturns(r) ==
    /\ ppc[r] = "await_add"
    /\ nixl_applied' = nixl_applied \cup {remote_metadata[r]}
    /\ loaded_metadata' = loaded_metadata \cup {req_engine[r]}
    /\ handshake_done' = handshake_done \cup {req_engine[r]}
    /\ CallGenerate(r)
    /\ UNCHANGED <<store, req_engine, remote_metadata, perr, outputs,
                   get_calls, add_calls, get_failed, started_after>>
    /\ UNCHANGED <<wvars, svars, rvars>>

\* Line 69: add_remote_nixl_metadata raises; the handler is left before
\* line 75, so the id is not recorded.
AddRaises_Recorded(r) ==
    /\ ppc[r] = "await_add"
    /\ perr' = [perr EXCEPT ![r] = "EngineError"]
    /\ ppc' = [ppc EXCEPT ![r] = "failed"]
    /\ loaded_metadata' = loaded_metadata \cup {req_engine[r]}
    /\ UNCHANGED <<store, nixl_applied, req_engine, remote_metadata,
                   outputs, get_calls, add_calls, gen_calls, get_failed,
                   handshake_done, started_after>>
    /\ UNCHANGED <<wvars, svars, rvars, gen_args>>
AddRaises(r) ==
    /\ ppc[r] = "await_add"
    /\ perr' = [perr EXCEPT ![r] = "EngineError"]
    /\ ppc' = [ppc EXCEPT ![r] = "failed"]
    /\ UNCHANGED <<store, loaded_metadata, nixl_applied, req_engine, remote_metadata,
                   outputs, get_calls, add_calls, gen_calls, get_failed,
                   handshake_done, started_after>>
    /\ UNCHANGED <<wvars, svars, rvars, gen_args>>

\* Lines 87-96: the engine produces an item, the handler yields and the
\* caller asks for the next one.
GenYields(r) ==
    /\ ppc[r] = "generating"
    /\ outputs[r] < MaxOut
    /\ outputs' = [outputs EXCEPT ![r] = @ + 1]
    /\ UNCHANGED <<store, loaded_metadata, nixl_applied, ppc, req_engine,
                   remote_metadata, perr, get_calls, add_calls, gen_calls,
                   get_failed, handshake_done, started_after>>
    /\ UNCHANGED <<wvars, svars, rvars, gen_args>>

\* Line 87: the engine's stream is exhausted; the handler returns.
GenEnds(r) ==
    /\ ppc[r] = "generating"
    /\ ppc' = [ppc EXCEPT ![r] = "done"]
    /\ UNCHANGED <<store, loaded_metadata, nixl_applied, req_engine, remote_metadata,
                   perr, outputs, get_calls, add_calls, gen_calls, get_failed,
                   handshake_done, started_after>>
    /\ UNCHANGED <<wvars, svars, rvars, gen_args>>

\* Line 87: the engine's stream raises.
GenRaises(r) ==
    /\ ppc[r] = "generating"
    /\ perr' = [perr EXCEPT ![r] = "EngineError"]
    /\ ppc' = [ppc EXCEPT ![r] = "failed"]
    /\ UNCHANGED <<store, loaded_metadata, nixl_applied, req_engine, remote_metadata,
                   outputs, get_calls, add_calls, gen_calls, get_failed,
                   handshake_done, started_after>>
    /\ UNCHANGED <<wvars, svars, rvars, gen_args>>

\* The caller closes the stream, or the task is cancelled, while the handler
\* is suspended: GeneratorExit / CancelledError unwinds it from where it is.
Cancelled(r) ==
    /\ ppc[r] \in {"await_get", "await_add", "generating"}
    /\ ppc' = [ppc EXCEPT ![r] = "cancelled"]
    /\ UNCHANGED <<store, loaded_metadata, nixl_applied, req_engine, remote_metadata,
                   perr, outputs, get_calls, add_calls, gen_calls, get_failed,
                   handshake_done, started_after>>
    /\ UNCHANGED <<wvars, svars, rvars, gen_args>>

\* -------------------------------------------------- TensorrtLLMEngine
\* Exceptions, by type and message (str(e)).
Exc(type, msg) == [type |-> type, msg |-> msg]
NoError == Exc("None", "")
CppExecutorError == Exc("CppExecutorError", "executor failed")
ValueError == Exc("ValueError", "invalid request")
IndexError == Exc("IndexError", "list index out of range")
\* Lines 63 and 113.
EngineNotInitialized == Exc("RuntimeError", "Engine not initialized")
\* Line 103.
NonStreaming == Exc("RuntimeError", "Non-streaming is not supported")
\* Line 108.
GenerationFailed(e) == Exc("RuntimeError", "Failed to generate: " \o e.msg)

\* What a collaborator (tokenizer, request, engine, processor) may raise.
CollaboratorErrors == {CppExecutorError, ValueError}

\* A fault of a collaborator during the handler's first stretch of code:
\* none, in the preparation before generate_async ("prepare": prompt
\* building, to_sampling_params), or in the at-th generate_async call.
NoFault == [stage |-> "none", at |-> 0, exc |-> NoError]
Faults ==
    {NoFault}
    \cup {[stage |-> "prepare", at |-> 0, exc |-> e] : e \in CollaboratorErrors}
    \cup {[stage |-> "invoke", at |-> j, exc |-> e] :
              j \in 1..MaxPrompts, e \in CollaboratorErrors}

\* request.prompt of a completion request: a string, a list of token ids, a
\* list of strings or a list of lists of token ids.
StrP(i) == [tag |-> "str", id |-> i, items |-> <<>>]
IntP(i) == [tag |-> "int", id |-> i, items |-> <<>>]
ListP(s) == [tag |-> "list", id |-> 0, items |-> s]
TokenList(n) == ListP([k \in 1..n |-> IntP(k)])
StringList(n) == ListP([k \in 1..n |-> StrP(k)])
TokenLists(n) == ListP([k \in 1..n |-> TokenList(k)])
PromptInputs ==
    {StrP(1)}
    \cup {TokenList(n) : n \in 1..MaxPrompts}
    \cup {StringList(n) : n \in 0..MaxPrompts}
    \cup {TokenLists(n) : n \in 1..MaxPrompts}

\* Lines 118-120: request.prompt[0] of an empty list raises IndexError.
NormalizeRaises(p) == p.tag = "list" /\ Len(p.items) = 0
\* Lines 118-123.
Normalize(p) ==
    IF p.tag = "str" \/ (p.tag = "list" /\ p.items[1].tag = "int")
    THEN <<p>>
    ELSE p.items

WInit ==
    /\ llm_engine = None
    /\ ongoing_request_count = 0
    /\ sigint_by = {}
    /\ kind = [t \in Tasks |-> None]
    /\ wpc = [t \in Tasks |-> "idle"]
    /\ stream = [t \in Tasks |-> FALSE]
    /\ promises = [t \in Tasks |-> <<>>]
    /\ yielded = [t \in Tasks |-> 0]
    /\ werr = [t \in Tasks |-> NoError]
    /\ raised = [t \in Tasks |-> NoError]
    /\ entered = [t \in Tasks |-> FALSE]
    /\ decs = [t \in Tasks |-> 0]
    /\ emitted = [t \in Tasks |-> <<>>]

\* The base engine creates the LLM engine.
InitEngine ==
    /\ llm_engine = None
    /\ llm_engine' = "engine"
    /\ UNCHANGED <<ongoing_request_count, sigint_by, kind, wpc, stream, promises,
                   yielded, werr, raised, entered, decs>>
    /\ UNCHANGED <<pvars, svars, emitted>>

\* Requests are numbered in the order the endpoint invokes the handlers.
NextTask(t) == wpc[t] = "idle" /\ \A q \in Tasks : q < t => wpc[q] # "idle"

AllActive(n) == [i \in 1..n |-> "active"]

\* How an exception e raised inside the try of generate_chat leaves the
\* handler (lines 104-108): SIGINT and a normal return for CppExecutorError,
\* RuntimeError("Failed to generate: ...") for every other Exception.
ChatExcept_AlwaysShutdown(e) == [pc |-> "done", err |-> NoError, sig |-> TRUE]
ChatExcept(e) ==
    IF e.type = "CppExecutorError"
    THEN [pc |-> "done", err |-> NoError, sig |-> TRUE]
    ELSE [pc |-> "failed", err |-> GenerationFailed(e), sig |-> FALSE]

\* generate_completion has no try: an exception leaves the handler as it is.
CompletionExcept_KeepsWaiting(e) == [pc |-> "streaming", err |-> NoError, sig |-> FALSE]
CompletionExcept(e) == [pc |-> "failed", err |-> e, sig |-> FALSE]

\* Lines 68-103 up to the first suspension: the promises created and the
\* exception raised, if any.
ChatSetup_IgnoresStream(s, fault) ==
    IF fault.stage = "prepare" THEN [promises |-> <<>>, exc |-> fault.exc]
    ELSE IF fault.stage = "invoke" THEN [promises |-> <<>>, exc |-> fault.exc]
    ELSE [promises |-> AllActive(1), exc |-> NoError]
ChatSetup(s, fault) ==
    IF fault.stage = "prepare" THEN [promises |-> <<>>, exc |-> fault.exc]
    ELSE IF fault.stage = "invoke" THEN [promises |-> <<>>, exc |-> fault.exc]
    ELSE IF s THEN [promises |-> AllActive(1), exc |-> NoError]
    ELSE [promises |-> AllActive(1), exc |-> NonStreaming]

\* Lines 118-142 up to the first suspension: the promises created and the
\* exception raised, if any.
CompletionSetup(p, fault) ==
    IF NormalizeRaises(p) THEN [promises |-> <<>>, exc |-> IndexError]
    ELSE IF fault.stage = "prepare" THEN [promises |-> <<>>, exc |-> fault.exc]
    ELSE IF fault.stage = "invoke"
         THEN [promises |-> AllActive(fault.at - 1), exc |-> fault.exc]
         ELSE [promises |-> AllActive(Len(Normalize(p))), exc |-> NoError]

\* ----------------------------------- one completion request in detail
\* The request as generate_completion reads it: request.prompt, request.n
\* (NoN: None), and the fields its two conversions read.
NoN == 0
NValues == {NoN} \cup 1..MaxN
NoDisaggregation == [request_type |-> None, first_gen_tokens |-> 0]
DisaggregationInputs == {None, "context_only"}
CompletionRequests ==
    [prompt : PromptInputs, n : NValues, max_tokens : 1..MaxTokens,
     disaggregated_params : DisaggregationInputs]

\* Line 126: request.to_sampling_params().
ToSamplingParams(req) == [max_tokens |-> req.max_tokens, n |-> req.n]
\* Line 127: request.to_llm_disaggregated_params().
ToLlmDisaggregatedParams(req) ==
    IF req.disaggregated_params = None
    THEN NoDisaggregation
    ELSE [request_type |-> req.disaggregated_params, first_gen_tokens |-> 1]

\* Lines 126-136: the arguments of the generate_async calls made for the
\* first m prompts, in the order of the loop; sampling_params and
\* disaggregated_params are computed once, before the loop.
GenerateAsyncCalls_LastFirst(req, m) ==
    LET prompts == Normalize(req.prompt)
        sampling == ToSamplingParams(req)
        disaggregated == ToLlmDisaggregatedParams(req)
    IN  [j \in 1..m |-> [prompt |-> prompts[Len(prompts) + 1 - j],
                         sampling_params |-> sampling,
                         disaggregated_params |-> disaggregated]]
GenerateAsyncCalls(req, m) ==
    LET prompts == Normalize(req.prompt)
        sampling == ToSamplingParams(req)
        disaggregated == ToLlmDisaggregatedParams(req)
    IN  [j \in 1..m |-> [prompt |-> prompts[j],
                         sampling_params |-> sampling,
                         disaggregated_params |-> disaggregated]]

\* Line 139.
NumChoices_IgnoresN(req) == Len(Normalize(req.prompt))
NumChoices(req) ==
    IF req.n = NoN
    THEN Len(Normalize(req.prompt))
    ELSE Len(Normalize(req.prompt)) * req.n

\* The fault can happen for the request: a generate_async call that raises
\* is one of the calls the loop makes.
FaultFits(req, fault) ==
    fault.stage = "invoke" =>
        ~NormalizeRaises(req.prompt) /\ fault.at <= Len(Normalize(req.prompt))

\* No request is followed in detail.
SIdle ==
    /\ creq = [prompt |-> StrP(1), n |-> NoN, max_tokens |-> 1,
               disaggregated_params |-> None]
    /\ cfault = NoFault
    /\ cpc = "idle"
    /\ calls = <<>>
    /\ num_choices = 0
    /\ cexc = NoError

\* generate_completion is called with any request.
SInit ==
    /\ creq \in CompletionRequests
    /\ cfault \in {f \in Faults : FaultFits(creq, f)}
    /\ cpc = "called"
    /\ calls = <<>>
    /\ num_choices = 0
    /\ cexc = NoError

\* Lines 112-143: from the call to the first suspension, or to the exception
\* that leaves the handler.
SubmitPrompts ==
    /\ cpc = "called"
    /\ IF llm_engine = None
       THEN /\ cexc' = EngineNotInitialized
            /\ cpc' = "failed"
            /\ UNCHANGED <<calls, num_choices, ongoing_request_count>>
       ELSE LET setup == CompletionSetup(creq.prompt, cfault) IN
            /\ ongoing_request_count' = ongoing_request_count + 1
            /\ calls' = GenerateAsyncCalls(creq, Len(setup.promises))
            /\ cexc' = setup.exc
            /\ num_choices' = IF setup.exc = NoError THEN NumChoices(creq) ELSE 0
            /\ cpc' = IF setup.exc = NoError THEN "streaming" ELSE "failed"
    /\ UNCHANGED <<creq, cfault>>
    /\ UNCHANGED <<llm_engine, sigint_by, kind, wpc, stream, promises, yielded, werr,
                   raised, entered, decs, emitted>>
    /\ UNCHANGED pvars

\* Lines 143-144: the first response is yielded.
FirstResponse ==
    /\ cpc = "streaming"
    /\ cpc' = "responded"
    /\ UNCHANGED <<creq, cfault, calls, num_choices, cexc>>
    /\ UNCHANGED <<pvars, wvars>>

SNext == InitEngine \/ SubmitPrompts \/ FirstResponse

\* The handler of request t ends: by `out` (ChatExcept / CompletionExcept of
\* the exception e), which may raise SIGINT.
Leave(t, e, out) ==
    /\ wpc' = [wpc EXCEPT ![t] = out.pc]
    /\ werr' = [werr EXCEPT ![t] = out.err]
    /\ raised' = [raised EXCEPT ![t] = e]
    /\ sigint_by' = IF out.sig THEN sigint_by \cup {t} ELSE sigint_by

\* Lines 62-98: generate_chat from its call to its first suspension (the
\* first item of the response generator) or its end.
GenerateChat(t, s, fault) ==
    /\ NextTask(t)
    /\ fault.at <= 1
    /\ kind' = [kind EXCEPT ![t] = "chat"]
    /\ stream' = [stream EXCEPT ![t] = s]
    /\ IF llm_engine = None
       THEN /\ fault = NoFault
            /\ wpc' = [wpc EXCEPT ![t] = "failed"]
            /\ werr' = [werr EXCEPT ![t] = EngineNotInitialized]
            /\ UNCHANGED <<promises, raised, sigint_by>>
       ELSE LET setup == ChatSetup(s, fault) IN
            /\ promises' = [promises EXCEPT ![t] = setup.promises]
            /\ IF setup.exc = NoError
               THEN /\ wpc' = [wpc EXCEPT ![t] = "streaming"]
                    /\ UNCHANGED <<werr, raised, sigint_by>>
               ELSE Leave(t, setup.exc, ChatExcept(setup.exc))
    /\ UNCHANGED <<llm_engine, ongoing_request_count, yielded, entered, decs>>
    /\ UNCHANGED <<pvars, svars, emitted>>

\* Lines 112-143: generate_completion from its call to its first suspension
\* (the first item of the response generator) or its end.
GenerateCompletion_CountsFirst(t, p, fault) ==
    /\ NextTask(t)
    /\ kind' = [kind EXCEPT ![t] = "completion"]
    /\ ongoing_request_count' = ongoing_request_count + 1
    /\ entered' = [entered EXCEPT ![t] = TRUE]
    /\ IF llm_engine = None
       THEN /\ fault = NoFault
            /\ wpc' = [wpc EXCEPT ![t] = "failed"]
            /\ werr' = [werr EXCEPT ![t] = EngineNotInitialized]
            /\ UNCHANGED <<promises, raised, sigint_by>>
       ELSE LET setup == CompletionSetup(p, fault) IN
            /\ ~NormalizeRaises(p) => fault.at <= Len(Normalize(p))
            /\ promises' = [promises EXCEPT ![t] = setup.promises]
            /\ IF setup.exc = NoError
               THEN /\ wpc' = [wpc EXCEPT ![t] = "streaming"]
                    /\ UNCHANGED <<werr, raised, sigint_by>>
               ELSE Leave(t, setup.exc, CompletionExcept(setup.exc))
    /\ UNCHANGED <<llm_engine, stream, yielded, decs>>
    /\ UNCHANGED <<pvars, svars, emitted>>
GenerateCompletion(t, p, fault) ==
    /\ NextTask(t)
    /\ kind' = [kind EXCEPT ![t] = "completion"]
    /\ IF llm_engine = None
       THEN /\ fault = NoFault
            /\ wpc' = [wpc EXCEPT ![t] = "failed"]
            /\ werr' = [werr EXCEPT ![t] = EngineNotInitialized]
            /\ UNCHANGED <<promises, raised, sigint_by, ongoing_request_count, entered>>
       ELSE LET setup == CompletionSetup(p, fault) IN
            /\ ~NormalizeRaises(p) => fault.at <= Len(Normalize(p))
            /\ ongoing_request_count' = ongoing_request_count + 1
            /\ entered' = [entered EXCEPT ![t] = TRUE]
            /\ promises' = [promises EXCEPT ![t] = setup.promises]
            /\ IF setup.exc = NoError
               THEN /\ wpc' = [wpc EXCEPT ![t] = "streaming"]
                    /\ UNCHANGED <<werr, raised, sigint_by>>
               ELSE Leave(t, setup.exc, CompletionExcept(setup.exc))
    /\ UNCHANGED <<llm_engine, stream, yielded, decs>>
    /\ UNCHANGED <<pvars, svars, emitted>>

Streaming(t) == wpc[t] = "streaming"
ActivePromises(t) == {i \in 1..Len(promises[t]) : promises[t][i] = "active"}

\* Lines 98-100 / 143-144: the response generator gives a response from
\* promise i, the handler yields it and the caller asks for the next one.
Respond(t, i) ==
    /\ Streaming(t)
    /\ i \in ActivePromises(t)
    /\ yielded[t] < MaxChunks
    /\ yielded' = [yielded EXCEPT ![t] = @ + 1]
    /\ UNCHANGED <<llm_engine, ongoing_request_count, sigint_by, kind, wpc, stream,
                   promises, werr, raised, entered, decs>>
    /\ UNCHANGED <<pvars, svars, emitted>>

\* The chunks of promise i among the responses request t has yielded.
ChunksOf(t, i) == SelectSeq(emitted[t], LAMBDA c : c.promise = i)

\* Respond, with the response recorded: promise i gives its next chunk (chunk
\* k of a promise is the k-th it produces), the merged stream delivers it and
\* the handler yields the response made of it.
RespondTraced_Prepends(t, i) ==
    /\ Streaming(t)
    /\ i \in ActivePromises(t)
    /\ yielded[t] < MaxChunks
    /\ yielded' = [yielded EXCEPT ![t] = @ + 1]
    /\ emitted' = [emitted EXCEPT ![t] =
                       <<[promise |-> i, chunk |-> Len(ChunksOf(t, i)) + 1]>> \o @]
    /\ UNCHANGED <<llm_engine, ongoing_request_count, sigint_by, kind, wpc, stream,
                   promises, werr, raised, entered, decs>>
    /\ UNCHANGED <<pvars, svars>>
RespondTraced(t, i) ==
    /\ Streaming(t)
    /\ i \in ActivePromises(t)
    /\ yielded[t] < MaxChunks
    /\ yielded' = [yielded EXCEPT ![t] = @ + 1]
    /\ emitted' = [emitted EXCEPT ![t] =
                       Append(@, [promise |-> i, chunk |-> Len(ChunksOf(t, i)) + 1])]
    /\ UNCHANGED <<llm_engine, ongoing_request_count, sigint_by, kind, wpc, stream,
                   promises, werr, raised, entered, decs>>
    /\ UNCHANGED <<pvars, svars>>

\* Promise i of a request is consumed to its end while other promises of the
\* request are still producing: the merged stream goes on.
PromiseEnds(t, i) ==
    /\ Streaming(t)
    /\ i \in ActivePromises(t)
    /\ ActivePromises(t) # {i}
    /\ promises' = [promises EXCEPT ![t][i] = "finished"]
    /\ UNCHANGED <<llm_engine, ongoing_request_count, sigint_by, kind, wpc, stream,
                   yielded, werr, raised, entered, decs>>
    /\ UNCHANGED <<pvars, svars, emitted>>

\* Line 98: the last promise is consumed to its end, the response generator
\* is exhausted and generate_chat returns.
ChatEnds(t, i) ==
    /\ Streaming(t) /\ kind[t] = "chat"
    /\ ActivePromises(t) = {i}
    /\ promises' = [promises EXCEPT ![t][i] = "finished"]
    /\ wpc' = [wpc EXCEPT ![t] = "done"]
    /\ UNCHANGED <<llm_engine, ongoing_request_count, sigint_by, kind, stream,
                   yielded, werr, raised, entered, decs>>
    /\ UNCHANGED <<pvars, svars, emitted>>

\* Lines 143-147: the last promise is consumed to its end, the response
\* generator is exhausted, the counter is decremented and generate_completion
\* returns.
CompletionEnds_NoDecrement(t, i) ==
    /\ Streaming(t) /\ kind[t] = "completion"
    /\ ActivePromises(t) = {i}
    /\ promises' = [promises EXCEPT ![t][i] = "finished"]
    /\ wpc' = [wpc EXCEPT ![t] = "done"]
    /\ UNCHANGED <<llm_engine, sigint_by, kind, stream, yielded, werr, raised, entered,
                   ongoing_request_count, decs>>
    /\ UNCHANGED <<pvars, svars, emitted>>
CompletionEnds(t, i) ==
    /\ Streaming(t) /\ kind[t] = "completion"
    /\ ActivePromises(t) = {i}
    /\ promises' = [promises EXCEPT ![t][i] = "finished"]
    /\ ongoing_request_count' = ongoing_request_count - 1
    /\ decs' = [decs EXCEPT ![t] = @ + 1]
    /\ wpc' = [wpc EXCEPT ![t] = "done"]
    /\ UNCHANGED <<llm_engine, sigint_by, kind, stream, yielded, werr, raised, entered>>
    /\ UNCHANGED <<pvars, svars, emitted>>

\* Lines 98 / 143: the response generator raises e while the handler waits
\* for its next item: promise i failed (i > 0), or the processor did (i = 0).
StreamRaises(t, i, e) ==
    /\ Streaming(t)
    /\ i = 0 \/ i \in ActivePromises(t)
    /\ promises' = IF i = 0 THEN promises ELSE [promises EXCEPT ![t][i] = "failed"]
    /\ Leave(t, e, IF kind[t] = "chat" THEN ChatExcept(e) ELSE CompletionExcept(e))
    /\ UNCHANGED <<llm_engine, ongoing_request_count, kind, stream, yielded,
                   entered, decs>>
    /\ UNCHANGED <<pvars, svars, emitted>>

\* The caller closes the stream, or the task is cancelled, while the handler
\* is suspended: GeneratorExit / CancelledError is no Exception, so no except
\* clause of generate_chat handles it, and generate_completion has none.
Closed(t) ==
    /\ Streaming(t)
    /\ wpc' = [wpc EXCEPT ![t] = "closed"]
    /\ UNCHANGED <<llm_engine, ongoing_request_count, sigint_by, kind, stream,
                   promises, yielded, werr, raised, entered, decs>>
    /\ UNCHANGED <<pvars, svars, emitted>>

WNext ==
    \/ InitEngine
    \/ \E t \in Tasks, s \in BOOLEAN, f \in Faults : GenerateChat(t, s, f)
    \/ \E t \in Tasks, p \in PromptInputs, f \in Faults : GenerateCompletion(t, p, f)
    \/ \E t \in Tasks, i \in 1..MaxPrompts : Respond(t, i)
    \/ \E t \in Tasks, i \in 1..MaxPrompts : PromiseEnds(t, i)
    \/ \E t \in Tasks, i \in 1..MaxPrompts : ChatEnds(t, i)
    \/ \E t \in Tasks, i \in 1..MaxPrompts : CompletionEnds(t, i)
    \/ \E t \in Tasks, i \in 0..MaxPrompts, e \in CollaboratorErrors :
           StreamRaises(t, i, e)
    \/ \E t \in Tasks : Closed(t)

\* The worker when only chat requests arrive.
ChatNext ==
    \/ InitEngine
    \/ \E t \in Tasks, s \in BOOLEAN, f \in Faults : GenerateChat(t, s, f)
    \/ \E t \in Tasks : Respond(t, 1)
    \/ \E t \in Tasks : ChatEnds(t, 1)
    \/ \E t \in Tasks, i \in 0..1, e \in CollaboratorErrors : StreamRaises(t, i, e)
    \/ \E t \in Tasks : Closed(t)

\* The worker serving one request, its responses traced.
SoloNext ==
    \/ InitEngine
    \/ \E s \in BOOLEAN, f \in Faults : GenerateChat(1, s, f)
    \/ \E p \in PromptInputs, f \in Faults : GenerateCompletion(1, p, f)
    \/ \E i \in 1..MaxPrompts : RespondTraced(1, i)
    \/ \E i \in 1..MaxPrompts : PromiseEnds(1, i)
    \/ \E i \in 1..MaxPrompts : ChatEnds(1, i)
    \/ \E i \in 1..MaxPrompts : CompletionEnds(1, i)
    \/ \E i \in 0..MaxPrompts, e \in CollaboratorErrors : StreamRaises(1, i, e)
    \/ Closed(1)

\* The worker when only completion requests arrive and every one of them runs
\* to its end: no collaborator raises and no caller closes its stream.
CounterNext ==
    \/ InitEngine
    \/ \E t \in Tasks, p \in PromptInputs :
           /\ llm_engine # None
           /\ ~NormalizeRaises(p)
           /\ GenerateCompletion(t, p, NoFault)
    \/ \E t \in Tasks, i \in 1..MaxPrompts : Respond(t, i)
    \/ \E t \in Tasks, i \in 1..MaxPrompts : PromiseEnds(t, i)
    \/ \E t \in Tasks, i \in 1..MaxPrompts : CompletionEnds(t, i)

\* The handlers from their call to their first suspension.
AdmitNext ==
    \/ InitEngine
    \/ \E t \in Tasks, s \in BOOLEAN, f \in Faults : GenerateChat(t, s, f)
    \/ \E t \in Tasks, p \in PromptInputs, f \in Faults : GenerateCompletion(t, p, f)

Init == PInit /\ WInit /\ SIdle

SetupInit == PInit /\ WInit /\ SInit

SpecSetup == SetupInit /\ [][SNext]_vars

SpecWorker == Init /\ [][WNext]_vars

SpecChat == Init /\ [][ChatNext]_vars

SpecSolo == Init /\ [][SoloNext]_vars

SpecCounter == Init /\ [][CounterNext]_vars

SpecAdmit == Init /\ [][AdmitNext]_vars

PNext ==
    \/ \E e \in Engines : StorePut(e)
    \/ \E r \in Reqs, e \in Engines : Generate(r, e)
    \/ \E r \in Reqs : GetReturns(r)
    \/ \E r \in Reqs : GetRaises(r)
    \/ \E r \in Reqs : AddReturns(r)
    \/ \E r \in Reqs : AddRaises(r)
    \/ \E r \in Reqs : GenYields(r)
    \/ \E r \in Reqs : GenEnds(r)
    \/ \E r \in Reqs : GenRaises(r)
    \/ \E r \in Reqs : Cancelled(r)

SpecPrefill == Init /\ [][PNext]_vars

\* ------------------------------------------------------ prefill claims
PassedHandshake(r) == gen_calls[r] > 0

\* C2 (as stated): for every engine id e, once a request for e has passed the
\* handshake, add_remote_nixl_metadata has been invoked exactly once for e,
\* whatever the interleaving of the concurrent generate calls.
C2_ExactlyOnce ==
    \A e \in Engines :
        (\E r \in Reqs : req_engine[r] = e /\ PassedHandshake(r)) => add_calls[e] = 1

\* C2 (amended): once a request for e has passed the handshake,
\* add_remote_nixl_metadata has been invoked at least once for e, and at most
\* once per request for e that started before any handshake for e completed.
C2_OncePerEarlyRequest ==
    \A e \in Engines :
        /\ (\E r \in Reqs : req_engine[r] = e /\ PassedHandshake(r)) => add_calls[e] >= 1
        /\ add_calls[e] <= Cardinality({r \in Reqs : req_engine[r] = e /\ ~started_after[r]})

C2_Witness ==
    \E e \in Engines :
        /\ add_calls[e] = 2
        /\ \A r \in 1..2 : req_engine[r] = e /\ PassedHandshake(r) /\ ppc[r] = "done"

\* C3: a generate call for e that starts after a handshake for e has run to
\* completion makes no MetadataStore.get call and no add_remote_nixl_metadata
\* call: it holds no fetched metadata and is never suspended in the handshake.
C3_NoRefetch ==
    \A r \in Reqs :
        started_after[r] =>
            /\ get_calls[r] = 0
            /\ remote_metadata[r] = NoMetadata
            /\ ppc[r] \notin {"await_get", "await_add"}

C3_Witness ==
    \E r, q \in Reqs :
        /\ q < r /\ req_engine[q] = req_engine[r]
        /\ ppc[q] = "done" /\ get_calls[q] = 1
        /\ started_after[r] /\ ppc[r] = "done" /\ outputs[r] = MaxOut

\* C4: whenever engine_client.generate has been invoked for a request with
\* engine id e, an add_remote_nixl_metadata call with the metadata fetched for
\* e has completed.
C4_AppliedBeforeGenerate ==
    \A r \in Reqs :
        gen_calls[r] > 0 => StoreGet(req_engine[r]) \in nixl_applied

C4_Witness ==
    \E r, q \in Reqs :
        /\ r # q /\ req_engine[q] = req_engine[r]
        /\ gen_calls[r] = 1 /\ get_calls[r] = 0
        /\ gen_calls[q] = 1 /\ get_calls[q] = 1

Terminated(t) == wpc[t] \in {"done", "failed", "closed"}
InFlight(t) == kind[t] = "completion" /\ entered[t] /\ ~Terminated(t)
\* The request passed the engine-initialized check of its handler.
EngineChecked(t) == wpc[t] # "idle" /\ werr[t] # EngineNotInitialized

\* C1: a generate_completion invocation that passed the engine-initialized
\* check has decremented the OngoingRequestCounter exactly once by the time it
\* has terminated, on every exit path (exhaustion, exception, cancellation).
C1_DecrementedOnce ==
    \A t \in Tasks :
        (kind[t] = "completion" /\ entered[t] /\ Terminated(t)) => decs[t] = 1

\* C6: once a chat or completion request has terminated, on any exit path,
\* every promise it created has been consumed to its end or cancelled.
C6_NoOrphanPromise ==
    \A t \in Tasks :
        Terminated(t) =>
            \A i \in 1..Len(promises[t]) :
                promises[t][i] \in {"finished", "failed", "cancelled"}

\* C7: a CppExecutorError raised while handling a request, chat or completion,
\* makes the handler raise SIGINT and is not surfaced as the request's error.
C7_FaultShutsDown ==
    \A t \in Tasks :
        raised[t].type = "CppExecutorError" => (t \in sigint_by /\ werr[t] = NoError)

\* C8: in the chat path every exception other than CppExecutorError raised
\* during prompt building, engine invocation or streaming leaves the handler
\* as RuntimeError("Failed to generate: " + its message) and raises no SIGINT;
\* SIGINT is raised only for CppExecutorError.
C8_ChatWrapsOthers ==
    \A t \in Tasks :
        /\ (kind[t] = "chat" /\ raised[t] # NoError /\ raised[t].type # "CppExecutorError")
               => /\ wpc[t] = "failed"
                  /\ werr[t] = Exc("RuntimeError", "Failed to generate: " \o raised[t].msg)
                  /\ t \notin sigint_by
        /\ t \in sigint_by => raised[t].type = "CppExecutorError"

C8_Witness ==
    \E t, u \in Tasks :
        /\ kind[t] = "chat" /\ raised[t] = ValueError /\ yielded[t] > 0
        /\ werr[t].msg = "Failed to generate: invalid request"
        /\ kind[u] = "chat" /\ u \in sigint_by

\* C9 (as stated): a chat request with stream = false on an initialized engine
\* always fails with the non-streaming-unsupported error and yields nothing.
C9_FailsUnsupported ==
    \A t \in Tasks :
        (kind[t] = "chat" /\ ~stream[t] /\ EngineChecked(t)) =>
            /\ wpc[t] = "failed" /\ werr[t] = NonStreaming
            /\ yielded[t] = 0

\* C9 (amended): a chat request with stream = false on an initialized engine
\* never yields a response and never waits on the response stream; when prompt
\* building and generate_async succeed it fails with RuntimeError("Failed to
\* generate: Non-streaming is not supported"); an earlier exception other than
\* CppExecutorError fails it with that exception wrapped the same way, and a
\* CppExecutorError raises SIGINT and ends the handler without an error.
C9_NonStreamingNeverYields ==
    \A t \in Tasks :
        (kind[t] = "chat" /\ ~stream[t] /\ EngineChecked(t)) =>
            /\ yielded[t] = 0
            /\ wpc[t] \in {"done", "failed"}
            /\ Len(promises[t]) = 1 =>
                   werr[t] = Exc("RuntimeError",
                                 "Failed to generate: Non-streaming is not supported")
            /\ wpc[t] = "failed" =>
                   /\ raised[t].type # "CppExecutorError"
                   /\ werr[t] = Exc("RuntimeError", "Failed to generate: " \o raised[t].msg)
            /\ wpc[t] = "done" =>
                   /\ raised[t].type = "CppExecutorError"
                   /\ t \in sigint_by /\ werr[t] = NoError

C9_Witness ==
    \E t \in Tasks :
        /\ kind[t] = "chat" /\ ~stream[t] /\ Len(promises[t]) = 1
        /\ wpc[t] = "failed"
        /\ werr[t].msg = "Failed to generate: Non-streaming is not supported"

\* C10: the OngoingRequestCounter is never negative, and it is zero whenever
\* no completion request is in flight.
C10_CounterZeroWhenIdle ==
    /\ ongoing_request_count >= 0
    /\ (\A t \in Tasks : ~InFlight(t)) => ongoing_request_count = 0

\* ------------------------------------------- completion request claims
\* generate_completion reached create_completion_generator (line 140).
Formatted == cpc \in {"streaming", "responded"}

\* C11: the num_choices given to the response formatter is K, the number of
\* normalized prompts (one generate_async call each), when request.n is None,
\* and K * n when request.n is a positive integer n.
C11_NumChoices ==
    Formatted =>
        /\ Len(calls) = Len(Normalize(creq.prompt))
        /\ creq.n = NoN => num_choices = Len(calls)
        /\ creq.n # NoN => num_choices = Len(calls) * creq.n

C11_Witness ==
    /\ cpc = "responded"
    /\ creq.n = 2 /\ Len(calls) = 2 /\ num_choices = 4

C14_NoLostUpdate ==
    /\ ongoing_request_count = Cardinality({t \in Tasks : InFlight(t)})
    /\ \A t \in Tasks : decs[t] = (IF wpc[t] = "done" THEN 1 ELSE 0)
    /\ (\A t \in Tasks : wpc[t] \in {"idle", "done"}) => ongoing_request_count = 0

C14_Witness ==
    /\ wpc[1] = "streaming" /\ yielded[1] > 0
    /\ wpc[2] = "done" /\ yielded[2] > 0 /\ Len(promises[2]) = 2
    /\ ongoing_request_count = 1

\* C15: while the engine is not initialized, generate_chat and
\* generate_completion both fail with RuntimeError("Engine not initialized")
\* before any other effect: the OngoingRequestCounter is unchanged, no
\* generate_async call is made (no promise exists) and nothing is yielded.
\* A request that failed so has left no effect behind.
C15_NotInitializedFailsFirst ==
    /\ llm_engine = None =>
           /\ ongoing_request_count = 0
           /\ \A t \in Tasks :
                  wpc[t] # "idle" =>
                      /\ wpc[t] = "failed"
                      /\ werr[t] = Exc("RuntimeError", "Engine not initialized")
    /\ \A t \in Tasks :
           werr[t] = Exc("RuntimeError", "Engine not initialized") =>
               /\ ~entered[t] /\ decs[t] = 0
               /\ promises[t] = <<>> /\ yielded[t] = 0
               /\ raised[t] = NoError /\ t \notin sigint_by

C15_Witness ==
    /\ llm_engine = None
    /\ kind[1] = "chat" /\ kind[2] = "completion"
    /\ \A t \in 1..2 : wpc[t] = "failed" /\ werr[t] = EngineNotInitialized

\* ------------------------------------------------ prefill claims, cont.
\* The handshake of request r failed: its MetadataStore.get or its
\* add_remote_nixl_metadata raised.
HandshakeFailed(r) == ppc[r] = "failed" /\ gen_calls[r] = 0

\* C16: a handshake that fails (MetadataStore.get or add_remote_nixl_metadata
\* raises) leaves _loaded_metadata as it was, and a later request for the same
\* id runs the fetch and the ingestion again: an id is in _loaded_metadata
\* only once an ingestion call for it has completed successfully, a failed
\* request is never the one that put its id there, and every request that
\* starts before such a completion calls MetadataStore.get.
C16_FailedHandshakeNotRecorded ==
    /\ \A e \in loaded_metadata : Metadata(e) \in nixl_applied /\ e \in handshake_done
    /\ \A r \in Reqs :
           (HandshakeFailed(r) /\ req_engine[r] \in loaded_metadata) =>
               \E q \in Reqs \ {r} :
                   req_engine[q] = req_engine[r] /\ get_calls[q] = 1 /\ gen_calls[q] = 1
    /\ \A r \in Reqs :
           (ppc[r] # "idle" /\ ~started_after[r]) => get_calls[r] = 1

C16_Witness ==
    \E r, q \in Reqs :
        /\ HandshakeFailed(r) /\ perr[r] = "EngineError" /\ add_calls[req_engine[r]] = 2
        /\ q > r /\ req_engine[q] = req_engine[r]
        /\ get_calls[q] = 1 /\ ppc[q] = "done"
        /\ loaded_metadata = {req_engine[q]}

\* C19: _loaded_metadata only grows: no step removes an id from it, and a
\* step adds at most one id, the engine_id of the request whose generate call
\* takes the step (the one leaving its add_remote_nixl_metadata await).
C19_OnlyGrows ==
    [][/\ loaded_metadata \subseteq loaded_metadata'
       /\ \A e \in loaded_metadata' \ loaded_metadata :
              /\ loaded_metadata' = loaded_metadata \cup {e}
              /\ \E r \in Reqs :
                     /\ req_engine[r] = e
                     /\ ppc[r] = "await_add" /\ ppc'[r] = "generating"
                     /\ \A q \in Reqs \ {r} : ppc'[q] = ppc[q]]_vars

C19_Witness ==
    /\ loaded_metadata = 1..2
    /\ \A r \in 1..2 : ppc[r] = "done" /\ get_calls[r] = 1

\* C20: every engine_client.generate call carries the cache-transfer
\* parameters of its own request (is_remote_decode set, decode_block_ids the
\* request's block_ids, decode_engine_id the request's engine_id) and sampling
\* parameters with max_tokens = 1 and min_tokens = 1, whatever sampling values
\* the request arrived with and whether its handshake ran or was skipped; no
\* call carries the parameters of another request.
C20_OwnParameters ==
    \A r \in Reqs :
        gen_calls[r] > 0 =>
            /\ gen_args[r].request_id = r
            /\ gen_args[r].sampling_params = [max_tokens |-> 1, min_tokens |-> 1]
            /\ gen_args[r].remote_prefill_params =
                   [is_remote_decode |-> TRUE,
                    decode_block_ids |-> block_ids[r],
                    decode_engine_id |-> req_engine[r]]
            /\ block_ids[r] = BlockIds(r)
            /\ \A q \in Reqs \ {r} :
                   gen_calls[q] > 0 =>
                       gen_args[q].remote_prefill_params.decode_block_ids
                           # block_ids[r]

C20_Witness ==
    \E r, q \in Reqs :
        /\ r # q /\ req_engine[r] = req_engine[q]
        /\ gen_calls[r] = 1 /\ get_calls[r] = 1
        /\ gen_calls[q] = 1 /\ get_calls[q] = 0
        /\ arrived = {[max_tokens |-> 16, min_tokens |-> 0]}
        /\ ppc[r] = "generating" /\ ppc[q] = "generating"

\* ------------------------------------- completion request claims, cont.
\* The prompts the claims expect of request.prompt: the prompt itself for a
\* string or one list of token ids, else its elements in order.
IsTokenList(p) == p.tag = "list" /\ Len(p.items) > 0 /\ p.items[1].tag = "int"
ExpectedPrompts(p) == IF p.tag = "str" \/ IsTokenList(p) THEN <<p>> ELSE p.items

\* C17: for every admissible request.prompt (a string, a list of token ids, a
\* list of strings or of lists of token ids, the empty list included) the
\* normalization gives K >= 1 prompts: the prompt itself for a string or one
\* list of token ids, the elements in order otherwise; no shape gives K = 0 or
\* makes the handler fail after the counter was incremented. (Stated for the
\* requests that incremented the counter and whose collaborators raise
\* nothing.)
C17_NormalizeTotal ==
    (cpc # "called" /\ cfault = NoFault /\ ongoing_request_count > 0) =>
        /\ cexc = NoError
        /\ Len(calls) >= 1
        /\ Len(calls) = Len(ExpectedPrompts(creq.prompt))
        /\ \A j \in 1..Len(calls) : calls[j].prompt = ExpectedPrompts(creq.prompt)[j]

\* C18: a completion request with K prompts makes K generate_async calls, one
\* per prompt in prompt order, all of them before its first response; every
\* call gets the same sampling parameters and the same disaggregation block,
\* which are the ones derived from the request. When a call raises, the calls
\* made before it are the first prompts, in order, with those parameters.
C18_CallsBeforeResponses ==
    /\ Formatted => Len(calls) = Len(ExpectedPrompts(creq.prompt))
    /\ Len(calls) <= Len(ExpectedPrompts(creq.prompt))
    /\ \A j \in 1..Len(calls) :
           /\ calls[j].prompt = ExpectedPrompts(creq.prompt)[j]
           /\ calls[j].sampling_params = calls[1].sampling_params
           /\ calls[j].disaggregated_params = calls[1].disaggregated_params
           /\ calls[j].sampling_params.max_tokens = creq.max_tokens
           /\ calls[j].sampling_params.n = creq.n
           /\ (creq.disaggregated_params = None)
                  = (calls[j].disaggregated_params.request_type = None)
           /\ creq.disaggregated_params # None =>
                  calls[j].disaggregated_params.request_type = creq.disaggregated_params

C18_Witness ==
    /\ cpc = "responded" /\ Len(calls) = 2
    /\ calls[1].prompt = StrP(1) /\ calls[2].prompt = StrP(2)
    /\ creq.max_tokens = 2 /\ creq.disaggregated_params = "context_only"

====
